---------------------------- MODULE Spec2Model ----------------------------
(***************************************************************************)
(* A model of ryzen-power.py: one run of `RyzenPower(duration).measure()`. *)
(*                                                                         *)
(* The environment (files under /sys, the MSR device files, the duration   *)
(* argument) is chosen in Init and never changes; the program is a         *)
(* sequential state machine whose position is pc.  Every file access,      *)
(* sleep, warning and print is appended to `trace`.                        *)
(*                                                                         *)
(* Representation of Python values:                                        *)
(*   - a text file's contents: a sequence of one-character strings;        *)
(*   - the 8 bytes read from an MSR: a sequence of 8 bytes (0..255), least *)
(*     significant first (the machine is x86);                             *)
(*   - a Python int in the signed 64-bit range: 8 base-256 digits, least   *)
(*     significant first, the last one signed (-128..127);                 *)
(*   - a Python float: [m, x] standing for m * 2^x, m odd or m = x = 0.    *)
(*     Every float the model computes is exact in IEEE-754 double          *)
(*     arithmetic because the durations are powers of two.                 *)
(*                                                                         *)
(* The input space is a union of five parts, each wide in one direction:   *)
(* small machines with moving counters, larger machines with gaps in the   *)
(* cpu descriptors, every value of the unit register's second byte, every  *)
(* short SMT control file, and every duration.  The table is modelled as   *)
(* the rows _format_result hands to _format_table, without the header row  *)
(* and the text layout.                                                    *)
(***************************************************************************)
EXTENDS Integers, Sequences, FiniteSets, TLC

\* ------------------------------------------------------------------ bounds

\* Logical CPUs of the machine in the sampling part of the input space.
MaxCpu == 2
\* Logical CPU slots of the machine in the topology part of the input space.
TopoCpus == 6
\* Longest SMT control file contents in the SMT part of the input space.
MaxStrLen == 3

\* ------------------------------------------------------- program constants

AMD_MSR_PWR_UNIT_OFFSET == "0xC0010299"
AMD_MSR_CORE_ENERGY_OFFSET == "0xC001029A"
AMD_MSR_PACKAGE_ENERGY_OFFSET == "0xC001029B"
\* 0xF
AMD_POWER_UNIT_MASK == 15
\* 0x1F00
AMD_ENERGY_UNIT_MASK == 7936
\* the shift of `>> 8` in _get_energy_units
EnergyUnitShift == 8
\* the core whose unit register _read_all_units reads
UnitCore == 0

\* ------------------------------------------------------------- arithmetic

RECURSIVE Pow(_, _)
Pow(b, n) == IF n = 0 THEN 1 ELSE b * Pow(b, n - 1)

Min(a, b) == IF a <= b THEN a ELSE b

\* A float m * 2^x in normal form.
RECURSIVE FNorm(_, _)
FNorm(m, x) ==
    IF m = 0 THEN [m |-> 0, x |-> 0]
    ELSE IF m % 2 = 0 THEN FNorm(m \div 2, x + 1)
    ELSE [m |-> m, x |-> x]

FZero == FNorm(0, 0)
FromInt(i) == FNorm(i, 0)
FMul(a, b) == FNorm(a.m * b.m, a.x + b.x)
\* a / b for b a power of two (b.m = 1 or -1), where the quotient is exact.
FDiv(a, b) == FNorm(a.m * b.m, a.x - b.x)
FAdd(a, b) ==
    LET x == Min(a.x, b.x)
    IN  FNorm(a.m * Pow(2, a.x - x) + b.m * Pow(2, b.x - x), x)
\* base ** n for a float base and a non-negative int n.
FPow(base, n) == FNorm(Pow(base.m, n), base.x * n)
FHalf == [m |-> 1, x |-> -1]

\* ---------------------------------------------- 64-bit values as 8 digits

Digits == 1..8

\* The bytes of a non-negative int below 2^31, least significant first.
Encode(n) == [i \in Digits |-> IF i <= 4 THEN (n \div Pow(256, i - 1)) % 256 ELSE 0]

\* Digit i of a, as an unsigned byte, sign-extended beyond digit 8.
UDigit(a, i) == IF i <= 8 THEN a[i] % 256 ELSE (IF a[8] < 0 THEN 255 ELSE 0)

\* Unsigned bytes back to digits: the last digit carries the sign.
Signed(u) == [i \in Digits |-> IF i = 8 /\ u[i] >= 128 THEN u[i] - 256 ELSE u[i]]

RECURSIVE ByteAnd(_, _)
ByteAnd(x, y) ==
    IF x = 0 \/ y = 0 THEN 0
    ELSE (x % 2) * (y % 2) + 2 * ByteAnd(x \div 2, y \div 2)

\* Python's a & b on two's-complement ints.
PyAnd(a, b) == Signed([i \in Digits |-> ByteAnd(UDigit(a, i), UDigit(b, i))])

\* Python's a >> n (arithmetic shift), 0 <= n < 64.
PyShr(a, n) ==
    LET q == n \div 8
        r == n % 8
    IN  Signed([i \in Digits |->
                   (UDigit(a, i + q) \div Pow(2, r))
                   + (UDigit(a, i + q + 1) % Pow(2, r)) * Pow(2, 8 - r)])

\* The value of an int that fits in 32 bits (every int the model converts).
PyToInt(a) ==
    a[1] + 256 * a[2] + 65536 * a[3]
    + 16777216 * (IF a[8] < 0 THEN a[4] - 256 ELSE a[4])

\* ------------------------------------------------------------------- text

Whitespace == {" ", "\n", "\t"}

RECURSIVE LStrip(_)
LStrip(s) ==
    IF s # <<>> /\ Head(s) \in Whitespace THEN LStrip(Tail(s)) ELSE s

RECURSIVE RStrip(_)
RStrip(s) ==
    IF s # <<>> /\ s[Len(s)] \in Whitespace
    THEN RStrip(SubSeq(s, 1, Len(s) - 1)) ELSE s

\* str.strip()
Strip(s) == RStrip(LStrip(s))

DigitChars == <<"0", "1", "2", "3", "4", "5", "6", "7", "8", "9">>
IsDigit(ch) == \E d \in 1..10 : DigitChars[d] = ch
DigitVal(ch) == (CHOOSE d \in 1..10 : DigitChars[d] = ch) - 1

RECURSIVE Decimal(_)
Decimal(s) ==
    IF s = <<>> THEN 0
    ELSE 10 * Decimal(SubSeq(s, 1, Len(s) - 1)) + DigitVal(s[Len(s)])

\* int(text): surrounding whitespace is ignored, an optional sign, then
\* decimal digits; anything else raises ValueError (ok = FALSE).
ParseInt(text) ==
    LET t == Strip(text)
        signed == t # <<>> /\ Head(t) \in {"+", "-"}
        body == IF signed THEN Tail(t) ELSE t
        good == body # <<>> /\ \A i \in 1..Len(body) : IsDigit(body[i])
    IN  [ok |-> good,
         val |-> IF ~good THEN 0
                 ELSE IF signed /\ Head(t) = "-" THEN 0 - Decimal(body)
                 ELSE Decimal(body)]

\* ------------------------------------------------------------------ state

VARIABLES
    \* the environment
    unitReg,           \* unitReg[c]: the 8 bytes of the unit register of cpu c
    counterValues,     \* the values an energy counter of this machine may show
    msrFaults,         \* the exceptions a register read on this machine may raise
    smtFile,           \* /sys/devices/system/cpu/smt/control
    desc,              \* desc[c + 1]: cpu c's topology/physical_package_id
    duration,          \* the --duration argument, a float
    \* the program
    pc,
    energy_unit, is_smt, cpu_id, cpu_package_mapping, package_topology, cores,
    idx,
    package_energy_before, core_energy_before,
    package_energy_after, core_energy_after,
    package_power, core_power,
    output,            \* the table handed to _format_table and printed
    error,             \* the exception that ended the run, "" if none
    trace              \* every file access, warning, sleep and print, in order

env == <<unitReg, counterValues, msrFaults, smtFile, desc, duration>>
ctor == <<energy_unit, is_smt, cpu_id, cpu_package_mapping, package_topology, cores>>
samples == <<package_energy_before, core_energy_before,
             package_energy_after, core_energy_after>>
results == <<package_power, core_power, output>>
vars == <<env, pc, ctor, idx, samples, results, error, trace>>

Ev(op, cpu, reg, res) == [op |-> op, cpu |-> cpu, reg |-> reg, res |-> res]

EmptyDict == <<>>

\* ------------------------------------------------------- register access

MsrErrors == {"PermissionError", "FileNotFoundError", "OSError"}

\* What the 8 bytes at `offset` of /dev/cpu/<cpu>/msr may be.
MsrContents(cpu, offset) ==
    IF offset = AMD_MSR_PWR_UNIT_OFFSET THEN {unitReg[cpu]}
    ELSE {Encode(v) : v \in counterValues}

\* unpack("q", buffer)[0]: the bytes as a signed 64-bit int.
_decode_int64(buffer) == Signed(buffer)

\* A successful _read_msr(cpu, offset) returning `value`.
_read_msr(cpu, offset, value) ==
    /\ \E buffer \in MsrContents(cpu, offset) : value = _decode_int64(buffer)
    /\ trace' = Append(trace, Ev("read_msr", cpu, offset, "ok"))

\* A _read_msr that logs the exception and lets the caller try again.
MsrFailRetry(cpu, offset) ==
    /\ \E e \in msrFaults :
          trace' = Append(trace, Ev("read_msr", cpu, offset, e))
    /\ UNCHANGED <<env, pc, ctor, idx, samples, results, error>>

\* open()/seek()/read() raised: the exception leaves _read_msr and nothing
\* catches it, so the run ends.
MsrFail(cpu, offset) ==
    /\ \E e \in msrFaults :
          /\ error' = e
          /\ trace' = Append(trace, Ev("read_msr", cpu, offset, e))
    /\ pc' = "aborted"
    /\ UNCHANGED <<env, ctor, idx, samples, results>>

\* --------------------------------------------------------- unit calibrator

\* (raw & AMD_ENERGY_UNIT_MASK) >> 8, then 0.5 ** that.
_get_energy_units(raw) ==
    LET exponent == PyShr(PyAnd(raw, Encode(AMD_ENERGY_UNIT_MASK)), EnergyUnitShift)
    IN  FPow(FHalf, PyToInt(exponent))

\* A constructor that goes from the unit register straight to the topology.
GetEnergyUnitsSkipSmt ==
    /\ pc = "units"
    /\ \/ /\ \E raw \in {_decode_int64(b) : b \in MsrContents(UnitCore, AMD_MSR_PWR_UNIT_OFFSET)} :
                /\ _read_msr(UnitCore, AMD_MSR_PWR_UNIT_OFFSET, raw)
                /\ energy_unit' = _get_energy_units(raw)
          /\ pc' = "topology"
          /\ UNCHANGED <<env, is_smt, cpu_id, cpu_package_mapping, package_topology,
                         cores, idx, samples, results, error>>
       \/ MsrFail(UnitCore, AMD_MSR_PWR_UNIT_OFFSET)

\* __init__, line 42: self._energy_unit = self._get_energy_units()
GetEnergyUnits ==
    /\ pc = "units"
    /\ \/ /\ \E raw \in {_decode_int64(b) : b \in MsrContents(UnitCore, AMD_MSR_PWR_UNIT_OFFSET)} :
                /\ _read_msr(UnitCore, AMD_MSR_PWR_UNIT_OFFSET, raw)
                /\ energy_unit' = _get_energy_units(raw)
          /\ pc' = "smt"
          /\ UNCHANGED <<env, is_smt, cpu_id, cpu_package_mapping, package_topology,
                         cores, idx, samples, results, error>>
       \/ MsrFail(UnitCore, AMD_MSR_PWR_UNIT_OFFSET)

\* ------------------------------------------------------------ SMT detection

SmtOn == <<"o", "n">>

\* The comparison without strip().
SmtStatusNoStrip(text) == text = SmtOn

\* The file was read: smt_status == "on" after strip().
SmtStatus(text) == Strip(text) = SmtOn

\* except FileNotFoundError: warn(...); return True
SmtMissing ==
    /\ ~smtFile.exists
    /\ is_smt' = TRUE
    /\ trace' = trace \o <<Ev("read_smt", -1, "", "FileNotFoundError"),
                           Ev("warn", -1, "", "ok")>>
    /\ pc' = "topology"
    /\ UNCHANGED <<env, energy_unit, cpu_id, cpu_package_mapping, package_topology,
                   cores, idx, samples, results, error>>

\* Any other exception of open()/read() is not caught.
SmtFail ==
    /\ smtFile.exists
    /\ error' = "PermissionError"
    /\ trace' = Append(trace, Ev("read_smt", -1, "", "PermissionError"))
    /\ pc' = "aborted"
    /\ UNCHANGED <<env, ctor, idx, samples, results>>

\* __init__, line 43: self._is_smt = self._detect_smt()
DetectSmt ==
    /\ pc = "smt"
    /\ \/ /\ smtFile.exists
          /\ is_smt' = SmtStatus(smtFile.text)
          /\ trace' = Append(trace, Ev("read_smt", -1, "", "ok"))
          /\ pc' = "topology"
          /\ UNCHANGED <<env, energy_unit, cpu_id, cpu_package_mapping,
                         package_topology, cores, idx, samples, results, error>>
       \/ SmtMissing
       \/ SmtFail

\* ------------------------------------------------------ topology discovery

\* os.path.isfile(".../cpu<c>/topology/physical_package_id")
IsFile(c) == c + 1 <= Len(desc) /\ desc[c + 1].exists

RECURSIVE SortedSeq(_)
\* sorted(...) of a set of ints.
SortedSeq(S) ==
    IF S = {} THEN <<>>
    ELSE LET least == CHOOSE a \in S : \A b \in S : a <= b
         IN  <<least>> \o SortedSeq(S \ {least})

\* The monitored cores without the filter on SMT.
MonitoredCoresUnfiltered(topology, smt) ==
    SortedSeq(DOMAIN topology)

\* __init__, lines 46-49: the monitored cores.
MonitoredCores(topology, smt) ==
    SortedSeq({c \in DOMAIN topology : smt => c % 2 = 0})

\* measure() starts with the first pass, which reads nothing when there are
\* no monitored cores; the same after the sleep.
Enter(stage, n) ==
    IF n > 0 THEN stage
    ELSE IF stage = "package_before" THEN "sleep" ELSE "calc"

\* The loop storing each package id under the next cpu id.
TopologyProbeShifted ==
    /\ IsFile(cpu_id)
    /\ ParseInt(desc[cpu_id + 1].text).ok
    /\ cpu_package_mapping' =
          cpu_package_mapping @@ (cpu_id + 1 :> ParseInt(desc[cpu_id + 1].text).val)
    /\ cpu_id' = cpu_id + 1
    /\ trace' = trace \o <<Ev("isfile", cpu_id, "", "ok"),
                           Ev("read_topology", cpu_id, "", "ok")>>
    /\ UNCHANGED <<env, pc, energy_unit, is_smt, package_topology, cores, idx,
                   samples, results, error>>

\* One turn of the loop over count(): the descriptor of cpu_id exists, is
\* read and parsed.
TopologyProbe ==
    /\ IsFile(cpu_id)
    /\ ParseInt(desc[cpu_id + 1].text).ok
    /\ cpu_package_mapping' =
          cpu_package_mapping @@ (cpu_id :> ParseInt(desc[cpu_id + 1].text).val)
    /\ cpu_id' = cpu_id + 1
    /\ trace' = trace \o <<Ev("isfile", cpu_id, "", "ok"),
                           Ev("read_topology", cpu_id, "", "ok")>>
    /\ UNCHANGED <<env, pc, energy_unit, is_smt, package_topology, cores, idx,
                   samples, results, error>>

\* int(f.read()) raised ValueError, or open()/read() raised: not caught.
TopologyFail ==
    /\ IsFile(cpu_id)
    /\ \E e \in {"ValueError", "PermissionError"} :
          /\ e = "ValueError" => ~ParseInt(desc[cpu_id + 1].text).ok
          /\ error' = e
          /\ trace' = trace \o <<Ev("isfile", cpu_id, "", "ok"),
                                 Ev("read_topology", cpu_id, "", e)>>
    /\ pc' = "aborted"
    /\ UNCHANGED <<env, ctor, idx, samples, results>>

\* The first cpu_id without a descriptor: the mapping is returned, and
\* __init__ runs to its end (lines 44-50); measure() is called next.
TopologyReturn ==
    /\ ~IsFile(cpu_id)
    /\ package_topology' = cpu_package_mapping
    /\ cores' = MonitoredCores(cpu_package_mapping, is_smt)
    /\ trace' = Append(trace, Ev("isfile", cpu_id, "", "missing"))
    /\ idx' = 1
    /\ pc' = Enter("package_before", Len(cores'))
    /\ UNCHANGED <<env, energy_unit, is_smt, cpu_id, cpu_package_mapping,
                   samples, results, error>>

\* __init__, line 44: self._package_topology = ...
DetectTopology ==
    /\ pc = "topology"
    /\ (TopologyProbe \/ TopologyFail \/ TopologyReturn)

\* ---------------------------------------------------------------- sampler

\* measure() without its sleep: the "after" passes follow at once.
AfterPassNoSleep(stage) ==
    CASE stage = "package_before" -> "core_before"
      [] stage = "core_before" -> "package_after"
      [] stage = "package_after" -> "core_after"
      [] stage = "core_after" -> "calc"

\* The pass after `stage` of measure().
AfterPass(stage) ==
    CASE stage = "package_before" -> "core_before"
      [] stage = "core_before" -> "sleep"
      [] stage = "package_after" -> "core_after"
      [] stage = "core_after" -> "calc"

\* One element of a dict comprehension {c: read(c) for c in self._cores}:
\* the read of cores[idx] succeeded and its value is stored in `dict`.
PassStep(stage, offset, dict, others) ==
    /\ pc = stage
    /\ \/ /\ \E value \in {_decode_int64(b) : b \in MsrContents(cores[idx], offset)} :
                /\ _read_msr(cores[idx], offset, value)
                /\ dict' = dict @@ (cores[idx] :> value)
          /\ IF idx < Len(cores)
             THEN idx' = idx + 1 /\ pc' = pc
             ELSE idx' = 1 /\ pc' = AfterPass(stage)
          /\ UNCHANGED <<env, ctor, others, results, error>>
       \/ MsrFail(cores[idx], offset)

\* measure(), line 119
_read_package_energy_before ==
    PassStep("package_before", AMD_MSR_PACKAGE_ENERGY_OFFSET, package_energy_before,
             <<core_energy_before, package_energy_after, core_energy_after>>)

\* measure(), line 120
_read_core_energy_before ==
    PassStep("core_before", AMD_MSR_CORE_ENERGY_OFFSET, core_energy_before,
             <<package_energy_before, package_energy_after, core_energy_after>>)

\* measure(), line 123
_read_package_energy_after ==
    PassStep("package_after", AMD_MSR_PACKAGE_ENERGY_OFFSET, package_energy_after,
             <<package_energy_before, core_energy_before, core_energy_after>>)

\* measure(), line 124
_read_core_energy_after ==
    PassStep("core_after", AMD_MSR_CORE_ENERGY_OFFSET, core_energy_after,
             <<package_energy_before, core_energy_before, package_energy_after>>)

\* measure(), line 122: sleep(self._duration); a negative length raises
\* ValueError.
Sleep ==
    /\ pc = "sleep"
    /\ \/ /\ duration.m >= 0
          /\ trace' = Append(trace, Ev("sleep", -1, "", "ok"))
          /\ idx' = 1
          /\ pc' = Enter("package_after", Len(cores))
          /\ UNCHANGED <<env, ctor, samples, results, error>>
       \/ /\ duration.m < 0
          /\ trace' = Append(trace, Ev("sleep", -1, "", "ValueError"))
          /\ error' = "ValueError"
          /\ pc' = "aborted"
          /\ UNCHANGED <<env, ctor, idx, samples, results>>

\* The delta taken the wrong way round.
_calc_power_swapped(before, after) ==
    FDiv(FMul(FromInt(PyToInt(before) - PyToInt(after)), energy_unit), duration)

\* The unit derived again, from the register of another core, at each use.
_calc_power_recomputed(before, after) ==
    FDiv(FMul(FromInt(PyToInt(after) - PyToInt(before)),
              _get_energy_units(_decode_int64(unitReg[1]))),
         duration)

\* (after - before) * self._energy_unit / self._duration
_calc_power(before, after) ==
    FDiv(FMul(FromInt(PyToInt(after) - PyToInt(before)), energy_unit), duration)

\* measure(), lines 125-126: both dict comprehensions; the first division
\* by a zero duration raises ZeroDivisionError.
CalcPower ==
    /\ pc = "calc"
    /\ \/ /\ duration.m # 0 \/ cores = <<>>
          /\ package_power' =
                [c \in DOMAIN package_energy_before |->
                    _calc_power(package_energy_before[c], package_energy_after[c])]
          /\ core_power' =
                [c \in DOMAIN core_energy_before |->
                    _calc_power(core_energy_before[c], core_energy_after[c])]
          /\ pc' = "print"
          /\ UNCHANGED <<env, ctor, idx, samples, output, error, trace>>
       \/ /\ duration.m = 0 /\ cores # <<>>
          /\ error' = "ZeroDivisionError"
          /\ pc' = "aborted"
          /\ UNCHANGED <<env, ctor, idx, samples, results, trace>>

\* --------------------------------------------------------------- reporter

\* sorted(set(self._package_topology.values()))
Sockets == SortedSeq({package_topology[c] : c \in DOMAIN package_topology})

\* The loop over self._cores for one socket (lines 150-158), from core
\* position i on, with the accumulators `total` and `package` so far.
RECURSIVE SocketLoop(_, _, _, _)
SocketLoop(socket, i, total, package) ==
    IF i > Len(cores) THEN [total |-> total, package |-> package, rows |-> <<>>]
    ELSE IF package_topology[cores[i]] = socket
    THEN LET rest == SocketLoop(socket, i + 1,
                                FAdd(total, core_power[cores[i]]),
                                package_power[cores[i]])
         IN  [rest EXCEPT !.rows =
                 <<[kind |-> "core",
                    id |-> IF is_smt THEN cores[i] \div 2 ELSE cores[i],
                    cores_power |-> core_power[cores[i]],
                    package_power |-> FZero]>> \o @]
    ELSE SocketLoop(socket, i + 1, total, package)

\* The rows of one socket: its own row, then one row per core of it.
SocketRows(socket) ==
    LET r == SocketLoop(socket, 1, FZero, FZero)
    IN  <<[kind |-> "socket", id |-> socket,
           cores_power |-> r.total, package_power |-> r.package]>> \o r.rows

RECURSIVE TableFrom(_)
TableFrom(k) ==
    IF k > Len(Sockets) THEN <<>>
    ELSE SocketRows(Sockets[k]) \o TableFrom(k + 1)

\* The table _format_result builds (after its header row).
_format_result == TableFrom(1)

\* measure(), line 127: print(self._format_result(package_power, core_power))
PrintResult ==
    /\ pc = "print"
    /\ output' = _format_result
    /\ trace' = Append(trace, Ev("print", -1, "", "ok"))
    /\ pc' = "done"
    /\ UNCHANGED <<env, ctor, idx, samples, package_power, core_power, error>>

Measure ==
    \/ _read_package_energy_before
    \/ _read_core_energy_before
    \/ Sleep
    \/ _read_package_energy_after
    \/ _read_core_energy_after
    \/ CalcPower
    \/ PrintResult

Next == GetEnergyUnits \/ DetectSmt \/ DetectTopology \/ Measure

\* ------------------------------------------------------------ input space

File(text) == [exists |-> TRUE, text |-> text]
Missing == [exists |-> FALSE, text |-> <<>>]

\* A descriptor: absent, socket 0, socket 1, or not an integer.
DescFiles == {Missing, File(<<"0", "\n">>), File(<<"1", "\n">>), File(<<"x", "\n">>)}

\* Unit registers as Ryzen parts show them: 0xA1003 (energy unit 2^-16) and
\* 0xA0E03 (energy unit 2^-14).
Raw16 == <<3, 16, 10, 0, 0, 0, 0, 0>>
Raw14 == <<3, 14, 10, 0, 0, 0, 0, 0>>

\* 0.5, 1.0, 0.0 and -0.5 seconds.
Durations == {FHalf, FromInt(1), FZero, [m |-> -1, x |-> -1]}

SmtFiles == {Missing, File(<<"o", "n", "\n">>), File(<<"o", "f", "f", "\n">>)}

RECURSIVE Strings(_, _)
\* The strings over `alphabet` of length at most n.
Strings(alphabet, n) ==
    IF n = 0 THEN {<<>>}
    ELSE LET shorter == Strings(alphabet, n - 1)
         IN  shorter \cup {Append(t, ch) : t \in shorter, ch \in alphabet}

ProgramStart ==
    /\ pc = "units"
    /\ energy_unit = FZero
    /\ is_smt = FALSE
    /\ cpu_id = 0
    /\ cpu_package_mapping = EmptyDict
    /\ package_topology = EmptyDict
    /\ cores = <<>>
    /\ idx = 1
    /\ package_energy_before = EmptyDict
    /\ core_energy_before = EmptyDict
    /\ package_energy_after = EmptyDict
    /\ core_energy_after = EmptyDict
    /\ package_power = EmptyDict
    /\ core_power = EmptyDict
    /\ output = <<>>
    /\ error = ""
    /\ trace = <<>>

\* Small machines whose counters move between reads.
InitSampling ==
    /\ desc \in [1..MaxCpu -> DescFiles]
    /\ smtFile \in SmtFiles
    /\ unitReg = [c \in 0..(MaxCpu - 1) |-> IF c = 0 THEN Raw14 ELSE Raw16]
    /\ counterValues = {1000, 2024}
    /\ msrFaults = {"PermissionError"}
    /\ duration \in {FHalf, FromInt(1)}

\* Larger machines with gaps in the descriptors; counters that stand still.
InitTopology ==
    /\ desc \in [1..TopoCpus -> DescFiles \ {File(<<"x", "\n">>)}]
    /\ smtFile \in SmtFiles \ {Missing}
    /\ unitReg = [c \in 0..(TopoCpus - 1) |-> Raw16]
    /\ counterValues = {1000}
    /\ msrFaults = {"FileNotFoundError"}
    /\ duration = FHalf

\* Every value of bits 8..15 of the unit register, under several contents
\* of the other 56 bits.
InitUnits ==
    /\ desc = <<File(<<"0", "\n">>), Missing>>
    /\ smtFile = File(<<"o", "n", "\n">>)
    /\ \E b \in 0..255, rest \in {0, 3, 128, 255} :
          unitReg = [c \in 0..1 |-> [i \in Digits |-> IF i = 2 THEN b ELSE rest]]
    /\ counterValues = {1000}
    /\ msrFaults = MsrErrors
    /\ duration = FHalf

\* Every short SMT control file over the letters of "on" and whitespace.
InitSmt ==
    /\ desc = <<File(<<"0", "\n">>), File(<<"0", "\n">>)>>
    /\ smtFile \in {File(t) : t \in Strings({"o", "n", " ", "\n"}, MaxStrLen)}
    /\ unitReg = [c \in 0..1 |-> Raw16]
    /\ counterValues = {1000}
    /\ msrFaults = MsrErrors
    /\ duration = FHalf

\* Every duration, on a two-socket machine.
InitDurations ==
    /\ desc = <<File(<<"0", "\n">>), File(<<"1", "\n">>)>>
    /\ smtFile \in SmtFiles
    /\ unitReg = [c \in 0..1 |-> Raw16]
    /\ counterValues = {1000, 2024}
    /\ msrFaults = MsrErrors
    /\ duration \in Durations

Init ==
    /\ ProgramStart
    /\ (InitSampling \/ InitTopology \/ InitUnits \/ InitSmt \/ InitDurations)

Spec == Init /\ [][Next]_vars

\* ------------------------------------------------- vocabulary of the claims

Ran(seq) == {seq[i] : i \in 1..Len(seq)}
CounterRegs == {AMD_MSR_CORE_ENERGY_OFFSET, AMD_MSR_PACKAGE_ENERGY_OFFSET}

\* Positions of the trace.
Sleeps == {i \in DOMAIN trace : trace[i].op = "sleep"}
UnitReads == {i \in DOMAIN trace :
                 trace[i].op = "read_msr" /\ trace[i].reg = AMD_MSR_PWR_UNIT_OFFSET}
CounterReads == {i \in DOMAIN trace :
                    trace[i].op = "read_msr" /\ trace[i].reg \in CounterRegs}
\* Successful reads of register `reg` of cpu c strictly between lo and hi.
ReadsOf(reg, c, lo, hi) ==
    {i \in DOMAIN trace :
        /\ lo < i /\ i < hi
        /\ trace[i] = Ev("read_msr", c, reg, "ok")}
\* Topology discovery has returned.
TopologyDone == \E i \in DOMAIN trace : trace[i] = Ev("isfile", trace[i].cpu, "", "missing")
\* A failed operation other than the missing SMT control file.
IsFailure(ev) ==
    /\ ev.res \notin {"ok", "missing"}
    /\ ~(ev.op = "read_smt" /\ ev.res = "FileNotFoundError")
\* Some power value exists or was printed.
PowerReported ==
    package_power # EmptyDict \/ core_power # EmptyDict \/ output # <<>>
        \/ pc \in {"print", "done"}

\* ---------------------------------------------------------------------- C1
\* C1: in one run of measure(), both "before" reads of every monitored core
\* precede the single sleep and both "after" reads follow it; a finished run
\* slept exactly once; no power value is computed or printed before all four
\* passes over every monitored core are complete.
C1_SamplingOrder ==
    /\ LET n == Cardinality(Sleeps)
       IN  n <= 1 /\ (pc = "done" => n = 1)
    /\ Sleeps = {} =>
          /\ package_energy_after = EmptyDict /\ core_energy_after = EmptyDict
          /\ ~PowerReported
    /\ \A s \in Sleeps :
          /\ DOMAIN package_energy_before = Ran(cores)
          /\ DOMAIN core_energy_before = Ran(cores)
          /\ \A c \in Ran(cores) :
                /\ Cardinality(ReadsOf(AMD_MSR_PACKAGE_ENERGY_OFFSET, c, 0, s)) = 1
                /\ Cardinality(ReadsOf(AMD_MSR_CORE_ENERGY_OFFSET, c, 0, s)) = 1
          /\ \A c \in DOMAIN package_energy_after :
                Cardinality(ReadsOf(AMD_MSR_PACKAGE_ENERGY_OFFSET, c, s, Len(trace) + 1)) = 1
          /\ \A c \in DOMAIN core_energy_after :
                Cardinality(ReadsOf(AMD_MSR_CORE_ENERGY_OFFSET, c, s, Len(trace) + 1)) = 1
          /\ Cardinality({i \in CounterReads : i > s /\ trace[i].res = "ok"})
                = Cardinality(DOMAIN package_energy_after)
                  + Cardinality(DOMAIN core_energy_after)
    /\ PowerReported =>
          /\ DOMAIN package_energy_before = Ran(cores)
          /\ DOMAIN core_energy_before = Ran(cores)
          /\ DOMAIN package_energy_after = Ran(cores)
          /\ DOMAIN core_energy_after = Ran(cores)
          /\ Cardinality({i \in CounterReads : trace[i].res = "ok"}) = 4 * Len(cores)

\* A finished run over two monitored cores.
C1_Witness ==
    pc = "done" /\ Len(cores) = 2 /\ Cardinality(Sleeps) = 1 /\ Len(output) = 3

\* ---------------------------------------------------------------------- C2
\* C2: the monitored-core list is the even ids of the topology's key set
\* when SMT is enabled and the whole key set when it is disabled, ascending
\* and without duplicates; the sampler reads the counters of these cores
\* only.
C2_MonitoredCores ==
    /\ TopologyDone =>
          /\ Ran(cores) = IF is_smt
                          THEN {c \in DOMAIN package_topology : c % 2 = 0}
                          ELSE DOMAIN package_topology
          /\ \A i, j \in 1..Len(cores) : i < j => cores[i] < cores[j]
    /\ CounterReads # {} => TopologyDone
    /\ \A i \in CounterReads : trace[i].cpu \in Ran(cores)
    /\ pc = "done" => \A c \in Ran(cores) : \A reg \in CounterRegs :
          Cardinality(ReadsOf(reg, c, 0, Len(trace) + 1)) = 2

\* Topology {0:0, 1:0, 2:0, 3:0} with SMT enabled: cores 0 and 2 were sampled.
C2_Witness ==
    /\ pc = "done"
    /\ is_smt
    /\ package_topology = (0 :> 0 @@ 1 :> 0 @@ 2 :> 0 @@ 3 :> 0)
    /\ cores = <<0, 2>>

\* ---------------------------------------------------------------------- C3
\* C3: a failed register read or topology read ends the run with the error:
\* it is the last thing the run did (no retry, nothing printed), no value
\* stands in for the failed read, and no power value exists, whatever was
\* read before.
C3_FailureAborts ==
    /\ \A i \in DOMAIN trace :
          (trace[i].op \in {"read_msr", "read_topology"} /\ IsFailure(trace[i])) =>
             /\ i = Len(trace)
             /\ pc = "aborted"
             /\ error = trace[i].res
    /\ pc = "aborted" =>
          /\ output = <<>> /\ package_power = EmptyDict /\ core_power = EmptyDict
          /\ \A i \in DOMAIN trace : trace[i].op # "print"
    /\ Cardinality({i \in CounterReads : trace[i].res = "ok"})
          = Cardinality(DOMAIN package_energy_before)
            + Cardinality(DOMAIN core_energy_before)
            + Cardinality(DOMAIN package_energy_after)
            + Cardinality(DOMAIN core_energy_after)

\* Permission denied on the last read of the last pass, every other counter
\* of two cores having been read.
C3_Witness ==
    /\ pc = "aborted"
    /\ error = "PermissionError"
    /\ Len(cores) = 2
    /\ DOMAIN package_energy_after = Ran(cores)
    /\ DOMAIN core_energy_after = {cores[1]}
    /\ trace[Len(trace)] =
          Ev("read_msr", cores[2], AMD_MSR_CORE_ENERGY_OFFSET, "PermissionError")

\* ---------------------------------------------------------------------- C5
\* C5: topology discovery probes cpu ids 0, 1, 2, ... in increasing order
\* and stops at the first id without a descriptor; the mapping it returns
\* has exactly the ids below that one, each with the package id of its
\* descriptor; ids above the gap are neither probed nor included.
FirstGap == CHOOSE k \in 0..Len(desc) :
               /\ \A c \in 0..(k - 1) : desc[c + 1].exists
               /\ k < Len(desc) => ~desc[k + 1].exists
IsFileEvents == {i \in DOMAIN trace : trace[i].op = "isfile"}
C5_TopologyDiscovery ==
    LET gap == FirstGap
        probes == IsFileEvents
    IN
    /\ \A i \in probes :
          /\ trace[i].cpu = Cardinality({j \in probes : j < i})
          /\ trace[i].cpu <= gap
          /\ trace[i].res = IF trace[i].cpu = gap THEN "missing" ELSE "ok"
    /\ \A i \in DOMAIN trace : trace[i].op = "read_topology" => trace[i].cpu < gap
    /\ TopologyDone =>
          /\ DOMAIN package_topology = 0..(gap - 1)
          /\ Cardinality(probes) = gap + 1
          /\ \A c \in DOMAIN package_topology :
                \E ch \in {"0", "1"} :
                   /\ desc[c + 1].text = <<ch, "\n">>
                   /\ package_topology[c] = IF ch = "0" THEN 0 ELSE 1

\* CPUs 0..3, a gap at 4 and a descriptor for CPU 5: four entries.
C5_Witness ==
    /\ TopologyDone
    /\ DOMAIN package_topology = 0..3
    /\ Len(desc) >= 6 /\ ~desc[5].exists /\ desc[6].exists

\* --------------------------------------------------- values of the claims

\* Bit i (0 = least significant) of the 64-bit pattern in the bytes `buf`.
Bit(buf, i) == (buf[(i \div 8) + 1] \div Pow(2, i % 8)) % 2
\* The field in bits 8..12 of the unit register of core 0.
UnitField ==
    Bit(unitReg[0], 8) + 2 * Bit(unitReg[0], 9) + 4 * Bit(unitReg[0], 10)
    + 8 * Bit(unitReg[0], 11) + 16 * Bit(unitReg[0], 12)
\* The float 2^(-e).
TwoToMinus(e) == [m |-> 1, x |-> 0 - e]
UnitReadOk == \E i \in UnitReads : trace[i].res = "ok"

\* power * dur = delta * unit, as numbers.
PowerIs(power, delta, unit, dur) ==
    LET lm == power.m * dur.m
        rm == delta * unit.m
        k == (power.x + dur.x) - unit.x
    IN  IF lm = 0 \/ rm = 0 THEN lm = rm
        ELSE IF k >= 0 THEN lm * Pow(2, k) = rm
        ELSE lm = rm * Pow(2, 0 - k)

\* ---------------------------------------------------------------------- C6
\* C6: the unit register is read once per run, from core 0; the energy unit
\* derived from that read stays as it is and is the unit of every power
\* value of the run, for every core and both counter kinds.
C6_UnitOnce ==
    /\ LET n == Cardinality(UnitReads)
       IN  n <= 1 /\ (pc # "units" => n = 1)
    /\ \A i \in UnitReads : trace[i].cpu = 0
    /\ UnitReadOk => energy_unit = TwoToMinus(UnitField)
    /\ \A c \in DOMAIN core_power :
          PowerIs(core_power[c],
                  PyToInt(core_energy_after[c]) - PyToInt(core_energy_before[c]),
                  TwoToMinus(UnitField), duration)
    /\ \A c \in DOMAIN package_power :
          PowerIs(package_power[c],
                  PyToInt(package_energy_after[c]) - PyToInt(package_energy_before[c]),
                  TwoToMinus(UnitField), duration)

\* A finished run in which core 1, whose own unit register differs from
\* core 0's, has a non-zero core power.
C6_Witness ==
    /\ pc = "done"
    /\ 1 \in DOMAIN core_power
    /\ core_power[1] # FZero
    /\ unitReg[1] # unitReg[0]

\* ---------------------------------------------------------------------- C7
\* C7: the energy unit is 2^(-e), e the 5-bit field in bits 8..12 of the raw
\* 64-bit unit register; no other bit, the sign bit included, matters.
C7_EnergyUnit ==
    UnitReadOk => (UnitField \in 0..31 /\ energy_unit = TwoToMinus(UnitField))

\* e = 16 in a register whose sign bit (and every bit outside byte 1) is set.
C7_Witness ==
    /\ UnitReadOk
    /\ unitReg[0] = <<255, 16, 255, 255, 255, 255, 255, 255>>
    /\ energy_unit = [m |-> 1, x |-> -16]

\* ---------------------------------------------------------------------- C8
\* C8: every power value is (after - before) * unit / duration over that
\* core's own two samples of that counter kind; equal samples give 0 and
\* after < before gives a negative value, not an error.
C8_PowerFormula ==
    /\ pc \in {"print", "done"} =>
          DOMAIN core_power = Ran(cores) /\ DOMAIN package_power = Ran(cores)
    /\ \A c \in DOMAIN core_power :
          LET delta == PyToInt(core_energy_after[c]) - PyToInt(core_energy_before[c])
          IN  /\ duration.m > 0
              /\ PowerIs(core_power[c], delta, energy_unit, duration)
              /\ core_energy_after[c] = core_energy_before[c] => core_power[c] = FZero
              /\ delta < 0 => core_power[c].m < 0
    /\ \A c \in DOMAIN package_power :
          LET delta == PyToInt(package_energy_after[c]) - PyToInt(package_energy_before[c])
          IN  /\ duration.m > 0
              /\ PowerIs(package_power[c], delta, energy_unit, duration)
              /\ package_energy_after[c] = package_energy_before[c]
                    => package_power[c] = FZero
              /\ delta < 0 => package_power[c].m < 0

\* Unit 2^-14, core counter 1000 then 2024, 0.5 s: 0.125 W; the package
\* counter of the same core went backwards.
C8_Witness ==
    /\ pc = "done"
    /\ energy_unit = [m |-> 1, x |-> -14]
    /\ duration = [m |-> 1, x |-> -1]
    /\ \E c \in DOMAIN core_power :
          /\ PyToInt(core_energy_before[c]) = 1000
          /\ PyToInt(core_energy_after[c]) = 2024
          /\ core_power[c] = [m |-> 1, x |-> -3]
          /\ package_power[c].m < 0

\* ---------------------------------------------------------------------- C9
\* C9: SMT detection returns true iff the control file's contents are "on"
\* up to surrounding whitespace; if the file is missing, it returns true,
\* warns, and the run goes on with odd core ids excluded; every other
\* failed operation ends the run.
TrimmedIsOn(text) ==
    \E i \in 1..(Len(text) - 1) :
       /\ text[i] = "o" /\ text[i + 1] = "n"
       /\ \A k \in 1..Len(text) : k \notin {i, i + 1} => text[k] \in {" ", "\n", "\t"}
SmtReads == {i \in DOMAIN trace : trace[i].op = "read_smt"}
C9_SmtDetection ==
    /\ \A i \in SmtReads :
          /\ trace[i].res = "ok" =>
                smtFile.exists /\ (is_smt <=> TrimmedIsOn(smtFile.text))
          /\ trace[i].res = "FileNotFoundError" =>
                /\ ~smtFile.exists
                /\ is_smt
                /\ i < Len(trace) /\ trace[i + 1] = Ev("warn", -1, "", "ok")
                /\ error # "FileNotFoundError" \/ Len(trace) > i + 1
                /\ pc = "aborted" => Len(trace) > i + 1
                /\ TopologyDone => \A k \in 1..Len(cores) : cores[k] % 2 = 0
                /\ \A j \in CounterReads : trace[j].cpu % 2 = 0
    /\ (~smtFile.exists /\ UnitReadOk /\ pc # "smt") =>
          \E i \in SmtReads : trace[i].res = "FileNotFoundError"
    /\ \A i \in DOMAIN trace :
          IsFailure(trace[i]) => pc = "aborted" /\ i = Len(trace)

\* No SMT control file, CPUs 0 and 1: the run finished having sampled core 0
\* only.
C9_Witness ==
    /\ ~smtFile.exists
    /\ pc = "done"
    /\ DOMAIN package_topology = {0, 1}
    /\ cores = <<0>>
    /\ \E i \in DOMAIN trace : trace[i].op = "warn"

\* --------------------------------------------------------------------- C10
\* What a trace event belongs to: 1 unit calibration, 2 SMT detection,
\* 3 topology discovery, 4 the sampler and the reporter.
Rank(ev) ==
    CASE ev.op = "read_msr" /\ ev.reg = AMD_MSR_PWR_UNIT_OFFSET -> 1
      [] ev.op \in {"read_smt", "warn"} -> 2
      [] ev.op \in {"isfile", "read_topology"} -> 3
      [] OTHER -> 4

\* C10 as stated: topology discovery has finished before the unit register
\* is read, and that read precedes the first counter read; no register is
\* accessed before topology discovery has finished.
C10_TopologyBeforeRegisters ==
    \A i \in DOMAIN trace :
       trace[i].op = "read_msr" =>
          \E j \in 1..(i - 1) : trace[j].op = "isfile" /\ trace[j].res = "missing"

\* C10 as amended: the unit register read is the first thing a run does;
\* SMT detection and then topology discovery follow it, and all three are
\* complete before the sampler's first counter read.
C10_StageOrder ==
    /\ \A i \in 1..(Len(trace) - 1) : Rank(trace[i]) <= Rank(trace[i + 1])
    /\ trace # <<>> => trace[1] = Ev("read_msr", 0, AMD_MSR_PWR_UNIT_OFFSET, trace[1].res)
    /\ \A i \in DOMAIN trace :
          (Rank(trace[i]) = 4 /\ (i = 1 \/ Rank(trace[i - 1]) # 4)) =>
             /\ \E j \in 1..(i - 1) : Rank(trace[j]) = 1 /\ trace[j].res = "ok"
             /\ \E j \in 1..(i - 1) : trace[j].op = "read_smt"
             /\ \E j \in 1..(i - 1) : trace[j].op = "isfile" /\ trace[j].res = "missing"

\* The constructor has returned and the first counter read is next.
C10_Witness ==
    /\ pc = "package_before" /\ idx = 1
    /\ package_energy_before = EmptyDict
    /\ Len(cores) >= 1
    /\ TopologyDone

\* ---------------------------------------------------------------------- C4
RECURSIVE SumPower(_)
\* The sum of core_power over a set of cores.
SumPower(S) ==
    IF S = {} THEN FZero
    ELSE LET c == CHOOSE c \in S : TRUE
         IN  FAdd(core_power[c], SumPower(S \ {c}))

\* C4: in the printed table every socket's total core power is the sum of
\* core_power over the monitored cores of that socket, and its package power
\* is the package power of one monitored core of that socket; every
\* monitored core has its row under exactly one socket.
C4_SocketAggregation ==
    pc = "done" =>
       /\ \A s \in Ran(Sockets) :
             \E r \in Ran(output) :
                /\ r.kind = "socket" /\ r.id = s
                /\ r.cores_power =
                      SumPower({c \in Ran(cores) : package_topology[c] = s})
                /\ \E c \in Ran(cores) :
                      package_topology[c] = s /\ r.package_power = package_power[c]
       /\ Cardinality({i \in DOMAIN output : output[i].kind = "core"}) = Len(cores)

=============================================================================
